---------------------------- MODULE Spec2Model ----------------------------
(***************************************************************************)
(* AV Brands storefront: the cart, the wishlist, the checkout workflow and *)
(* its order numbers, the profile, the shop and home pages, the comments   *)
(* and the admin pages of src/app.py over the tables of src/models.py.     *)
(*                                                                         *)
(* Money is modelled in whole units (the code stores Float columns); a NULL *)
(* column is the empty tuple and a value v is <<v>>.                       *)
(***************************************************************************)
EXTENDS Integers, Sequences, FiniteSets

(* ------------------------------ bounds --------------------------------- *)
MaxStock == 2
MaxQty == 2
MaxCart == 2
MaxOrders == 1
MaxTime == 3
MaxWishlist == 2
MaxProducts == 3
MaxOffers == 2
MaxComments == 1

(* ------------------------------ domains -------------------------------- *)
None == <<>>
Some(v) == <<v>>

Users == {1, 2}
\* the threads of the development server, one per request being handled
Threads == {1, 2}
Idle == [op |-> "idle"]
Products == {1, 2}

\* the (user, product, size, color) keys the clients shop with: user 1 takes
\* product 1 in two variants, user 2 takes product 1
CartKeys == {<<1, 1, None, None>>, <<1, 1, Some("M"), None>>, <<2, 1, None, None>>}

\* request.form.get('quantity', 1, type=int): any integer the client sends
QuantityInputs == {-1, 0, 1, 2}

\* ProductForm submissions
PriceInputs == {0, 1, 3}
DiscountInputs == {None, Some(0), Some(2)}
StockInputs == {-1, 0, 1, MaxStock}

VARIABLES
    products,   \* products table: id -> [price, discount_price, stock, is_active]
    cart,       \* cart_items table in rowid order
    orders,     \* orders table in rowid order, each with its order_items
    last,       \* the request handled last, with the stock it found
    inflight,   \* per server thread: the request between its query and its commit
    users,      \* users table: id -> the profile columns
    offers,     \* offers table in rowid order
    now,        \* the clock of the server, in seconds
    wishlist,   \* wishlist_items table in rowid order
    comments    \* comments table in rowid order

vars == <<products, cart, orders, last, inflight, users, offers, now, wishlist, comments>>

\* everything but the record of the last request
tables == <<products, cart, orders, inflight, users, offers, now, wishlist, comments>>

(* ------------------------------ helpers -------------------------------- *)
RECURSIVE SumSeq(_)
SumSeq(s) == IF s = <<>> THEN 0 ELSE Head(s) + SumSeq(Tail(s))

MaxOf(S) == IF S = {} THEN 0 ELSE CHOOSE m \in S : \A x \in S : x <= m

\* Python truthiness of an optional number: None and 0 are false
Truthy(v) == v # None /\ v[1] # 0

(* ------------------------------ models.py ------------------------------ *)
\* Product.get_final_price
get_final_price(p) == IF Truthy(p.discount_price) THEN p.discount_price[1] ELSE p.price

\* faulty variant, for comparison: the line total taken from the base price, whatever the discount
get_total_price_base(item, prods) == prods[item.product_id].price * item.quantity

\* CartItem.get_total_price, the product looked up in table prods
get_total_price(item, prods) == get_final_price(prods[item.product_id]) * item.quantity

\* OrderItem.get_total
get_total(oi) == oi.price * oi.quantity

\* faulty variant, for comparison: an offer taken as expired from its end_date on
is_valid_ExpiredAtEnd(o, t) ==
    IF ~o.is_active THEN FALSE
    ELSE IF o.end_date # None /\ t >= o.end_date[1] THEN FALSE
    ELSE TRUE

\* Offer.is_valid at utcnow() = t; a datetime is truthy whatever its value, so
\* "self.end_date and ..." only tests for NULL
is_valid(o, t) ==
    IF ~o.is_active THEN FALSE
    ELSE IF o.end_date # None /\ t > o.end_date[1] THEN FALSE
    ELSE TRUE

(* ------------------------------ queries -------------------------------- *)
\* CartItem.query.filter_by(user_id=u).all()
CartOf(c, u) == SelectSeq(c, LAMBDA it : it.user_id = u)

\* faulty variant, for comparison: size and color compared with "=", which no NULL satisfies in SQL
MatchingIdx_NullNeverEqual(c, u, p, s, col) ==
    {i \in 1..Len(c) : /\ c[i].user_id = u
                       /\ c[i].product_id = p
                       /\ s # None /\ c[i].size = s
                       /\ col # None /\ c[i].color = col}

\* CartItem.query.filter_by(user_id, product_id, size, color): the positions that
\* match; filter_by(size=None) compares with IS NULL
MatchingIdx(c, u, p, s, col) ==
    {i \in 1..Len(c) : /\ c[i].user_id = u
                       /\ c[i].product_id = p
                       /\ c[i].size = s
                       /\ c[i].color = col}

\* .first(): the matching row of lowest rowid, 0 when there is none
FirstMatch(c, u, p, s, col) ==
    LET m == MatchingIdx(c, u, p, s, col)
    IN IF m = {} THEN 0 ELSE CHOOSE i \in m : \A j \in m : i <= j

\* the id SQLite gives a new cart_items row: max(rowid) + 1
NewCartId(c) == MaxOf({c[i].id : i \in 1..Len(c)}) + 1

IdxOfId(c, id) ==
    LET m == {i \in 1..Len(c) : c[i].id = id}
    IN IF m = {} THEN 0 ELSE CHOOSE i \in m : TRUE

RemoveAt(c, i) == SubSeq(c, 1, i - 1) \o SubSeq(c, i + 1, Len(c))

(* ------------------------------ add_to_cart ---------------------------- *)
\* existing_item = CartItem.query.filter_by(...).first(): the row's id and the
\* quantity loaded with it, id 0 when no row matches
AddToCartQuery(c, u, p, s, col) ==
    LET i == FirstMatch(c, u, p, s, col)
    IN IF i = 0 THEN [existing |-> 0, loaded |-> 0]
       ELSE [existing |-> c[i].id, loaded |-> c[i].quantity]

\* what the commit writes: UPDATE quantity of the row found, or INSERT a new row
AddToCartCommit(c, found, u, p, q, s, col) ==
    IF found.existing # 0
    THEN [c EXCEPT ![IdxOfId(c, found.existing)].quantity = found.loaded + q]
    ELSE Append(c, [id |-> NewCartId(c), user_id |-> u, product_id |-> p,
                    quantity |-> q, size |-> s, color |-> col])

\* the cart_items table after an add_to_cart that runs from query to commit
AddToCartEffect(c, u, p, q, s, col) ==
    AddToCartCommit(c, AddToCartQuery(c, u, p, s, col), u, p, q, s, col)

\* the model's bounds on the cart_items table
CartInBounds(c) ==
    /\ Len(c) <= MaxCart
    /\ \A i \in 1..Len(c) : c[i].quantity \in (0 - 1)..MaxQty /\ c[i].id <= MaxCart

\* the stock per product, 0 for a product that is not in the table
StockOf(prods) == [p \in Products |-> IF p \in DOMAIN prods THEN prods[p].stock ELSE 0]

\* a checkout form left empty
NoForm ==
    [shipping_name |-> "", shipping_phone |-> "", shipping_address |-> "",
     shipping_city |-> "", shipping_state |-> "", shipping_pincode |-> "",
     payment_method |-> ""]

\* what is kept of a request: the handler, its outcome, and for add_to_cart the
\* quantity asked for, for update_cart and remove_from_cart the requester and
\* the entry asked for, for checkout the user, the stock found, the form and the
\* price edit made just before, the order number generated and the ids of the
\* cart entries ordered, for admin_edit_product the product and the final price
\* it had, for index the time of the request and the offers put on the page, for
\* shop the price bounds and the products listed
NoStock == [p \in Products |-> 0]

Request(op, outcome) ==
    [op |-> op, outcome |-> outcome, user |-> 0, quantity |-> 0, stock |-> NoStock,
     item |-> 0, at |-> 0, shown |-> {}, form |-> NoForm, product |-> 0, price |-> 0,
     number |-> "", entries |-> {}, min_price |-> None, max_price |-> None]

\* flash: 'Updated ... quantity in cart!' or 'Added ... to cart!'
AddOutcome(found) == IF found.existing # 0 THEN "updated" ELSE "added"

add_to_cart(u, p, q, s, col) ==
    LET c2 == AddToCartEffect(cart, u, p, q, s, col)
    IN IF p \notin DOMAIN products
       THEN /\ last' = [Request("add_to_cart", "404") EXCEPT !.user = u, !.quantity = q]
            /\ UNCHANGED tables
       ELSE
       /\ CartInBounds(c2)
       /\ cart' = c2
       /\ last' = [Request("add_to_cart", AddOutcome(AddToCartQuery(cart, u, p, s, col)))
                   EXCEPT !.user = u, !.quantity = q]
       /\ UNCHANGED <<wishlist, comments, users, offers, now, products, orders, inflight>>

\* add_to_cart on a server thread, up to the query of line 327
add_to_cart_query(t, u, p, q, s, col) ==
    /\ inflight[t] = Idle
    /\ inflight' = [inflight EXCEPT ![t] =
                       [op |-> "add_to_cart", user_id |-> u, product_id |-> p, quantity |-> q,
                        size |-> s, color |-> col, found |-> AddToCartQuery(cart, u, p, s, col)]]
    /\ UNCHANGED <<wishlist, comments, users, offers, now, products, cart, orders, last>>

\* the rest of that request: db.session.commit(); an UPDATE that matches no row
\* raises StaleDataError and the 500 handler rolls back
add_to_cart_commit(t) ==
    LET r == inflight[t]
    IN /\ r.op = "add_to_cart"
       /\ inflight' = [inflight EXCEPT ![t] = Idle]
       /\ IF r.found.existing # 0 /\ IdxOfId(cart, r.found.existing) = 0
          THEN /\ last' = Request("add_to_cart", "500")
               /\ UNCHANGED <<wishlist, comments, users, offers, now, products, cart, orders>>
          ELSE LET c2 == AddToCartCommit(cart, r.found, r.user_id, r.product_id,
                                         r.quantity, r.size, r.color)
               IN /\ CartInBounds(c2)
                  /\ cart' = c2
                  /\ last' = [Request("add_to_cart", AddOutcome(r.found))
                              EXCEPT !.quantity = r.quantity]
                  /\ UNCHANGED <<wishlist, comments, users, offers, now, products, orders>>

(* ------------------------------ update_cart ---------------------------- *)
\* faulty variant, for comparison: a quantity of zero is stored, not deleted
UpdateCartEffect_ZeroKept(c, i, q) ==
    IF q >= 0 THEN [c EXCEPT ![i].quantity = q] ELSE RemoveAt(c, i)

UpdateCartEffect(c, i, q) ==
    IF q > 0 THEN [c EXCEPT ![i].quantity = q] ELSE RemoveAt(c, i)

\* the request as it is kept: who asked, for which cart_items id, with which quantity
CartRequest(op, outcome, u, item_id, q) ==
    [Request(op, outcome) EXCEPT !.user = u, !.item = item_id, !.quantity = q]

\* faulty variant, for comparison: the handler without its ownership check
update_cart_NoOwnerCheck(u, item_id, q) ==
    LET i == IdxOfId(cart, item_id)
    IN IF i = 0
       THEN /\ last' = CartRequest("update_cart", "404", u, item_id, q)
            /\ UNCHANGED tables
       ELSE /\ CartInBounds(UpdateCartEffect(cart, i, q))
            /\ cart' = UpdateCartEffect(cart, i, q)
            /\ last' = CartRequest("update_cart", "unauthorized", u, item_id, q)
            /\ UNCHANGED <<wishlist, comments, users, offers, now, products, orders, inflight>>

update_cart(u, item_id, q) ==
    LET i == IdxOfId(cart, item_id)
    IN IF i = 0
       THEN /\ last' = CartRequest("update_cart", "404", u, item_id, q)
            /\ UNCHANGED tables
       ELSE IF cart[i].user_id # u
       THEN /\ last' = CartRequest("update_cart", "unauthorized", u, item_id, q)
            /\ UNCHANGED tables
       ELSE /\ CartInBounds(UpdateCartEffect(cart, i, q))
            /\ cart' = UpdateCartEffect(cart, i, q)
            /\ last' = CartRequest("update_cart", "ok", u, item_id, q)
            /\ UNCHANGED <<wishlist, comments, users, offers, now, products, orders, inflight>>

(* ------------------------------ remove_from_cart ----------------------- *)
remove_from_cart(u, item_id) ==
    LET i == IdxOfId(cart, item_id)
    IN IF i = 0
       THEN /\ last' = CartRequest("remove_from_cart", "404", u, item_id, 0)
            /\ UNCHANGED tables
       ELSE IF cart[i].user_id # u
       THEN /\ last' = CartRequest("remove_from_cart", "unauthorized", u, item_id, 0)
            /\ UNCHANGED tables
       ELSE /\ cart' = RemoveAt(cart, i)
            /\ last' = CartRequest("remove_from_cart", "ok", u, item_id, 0)
            /\ UNCHANGED <<wishlist, comments, users, offers, now, products, orders, inflight>>

(* ------------------------------ wishlist ------------------------------- *)
\* WishlistItem.query.filter_by(user_id, product_id).first(): the position of the
\* first row of the pair, 0 for None
WishlistFirst(w, u, p) ==
    LET S == {i \in 1..Len(w) : w[i].user_id = u /\ w[i].product_id = p}
    IN IF S = {} THEN 0 ELSE CHOOSE i \in S : \A j \in S : i <= j

\* GET /add_to_wishlist/<product_id> by user u: the product is taken off the
\* wishlist if it is on it, and put on it otherwise
add_to_wishlist(u, p) ==
    LET i == WishlistFirst(wishlist, u, p)
    IN IF p \notin DOMAIN products
       THEN /\ last' = [Request("add_to_wishlist", "404") EXCEPT !.user = u, !.product = p]
            /\ UNCHANGED tables
       ELSE IF i # 0
       THEN /\ wishlist' = RemoveAt(wishlist, i)
            /\ last' = [Request("add_to_wishlist", "removed") EXCEPT
                           !.user = u, !.product = p]
            /\ UNCHANGED <<products, cart, orders, inflight, users, offers, now, comments>>
       ELSE /\ NewCartId(wishlist) <= MaxWishlist
            /\ wishlist' = Append(wishlist,
                               [id |-> NewCartId(wishlist), user_id |-> u, product_id |-> p])
            /\ last' = [Request("add_to_wishlist", "added") EXCEPT
                           !.user = u, !.product = p]
            /\ UNCHANGED <<products, cart, orders, inflight, users, offers, now, comments>>

\* GET /remove_from_wishlist/<item_id> by user u
remove_from_wishlist(u, item_id) ==
    LET i == IdxOfId(wishlist, item_id)
    IN IF i = 0
       THEN /\ last' = [Request("remove_from_wishlist", "404") EXCEPT
                           !.user = u, !.item = item_id]
            /\ UNCHANGED tables
       ELSE IF wishlist[i].user_id # u
       THEN /\ last' = [Request("remove_from_wishlist", "ignored") EXCEPT
                           !.user = u, !.item = item_id]
            /\ UNCHANGED tables
       ELSE /\ wishlist' = RemoveAt(wishlist, i)
            /\ last' = [Request("remove_from_wishlist", "ok") EXCEPT
                           !.user = u, !.item = item_id]
            /\ UNCHANGED <<products, cart, orders, inflight, users, offers, now, comments>>

(* ------------------------------ checkout ------------------------------- *)
\* the catalogue the shop opens with
InitProducts == [p \in Products |->
    IF p = 1 THEN [price |-> 3, discount_price |-> Some(2), stock |-> MaxStock,
                   is_active |-> TRUE]
             ELSE [price |-> 1, discount_price |-> None, stock |-> 1, is_active |-> TRUE]]

\* total = sum(item.get_total_price() for item in cart_items)
CartTotal(items, prods) ==
    SumSeq([i \in 1..Len(items) |-> get_total_price(items[i], prods)])

\* faulty variant, for comparison: the OrderItem built without its size
OrderItemsOf_NoSize(items, prods) ==
    [i \in 1..Len(items) |->
        [product_id |-> items[i].product_id, quantity |-> items[i].quantity,
         price |-> get_final_price(prods[items[i].product_id]),
         size |-> None, color |-> items[i].color]]

\* faulty variant, for comparison: the items priced from the catalogue the shop opened with
OrderItemsOf_OpeningPrice(items, prods) ==
    [i \in 1..Len(items) |->
        [product_id |-> items[i].product_id, quantity |-> items[i].quantity,
         price |-> get_final_price(InitProducts[items[i].product_id]),
         size |-> items[i].size, color |-> items[i].color]]

\* the OrderItem rows of the loop over cart_items
OrderItemsOf(items, prods) ==
    [i \in 1..Len(items) |->
        [product_id |-> items[i].product_id, quantity |-> items[i].quantity,
         price |-> get_final_price(prods[items[i].product_id]),
         size |-> items[i].size, color |-> items[i].color]]

\* faulty variant, for comparison: the stock reduced without the check
ReduceStockStep_Unguarded(prods, item) ==
    [prods EXCEPT ![item.product_id].stock = @ - item.quantity]

\* faulty variant, for comparison: the check made with > instead of >=
ReduceStockStep_Strict(prods, item) ==
    IF prods[item.product_id].stock > item.quantity
    THEN [prods EXCEPT ![item.product_id].stock = @ - item.quantity]
    ELSE prods

\* faulty variant, for comparison: a short stock is taken down to zero
ReduceStockStep_TakeWhatIsThere(prods, item) ==
    IF prods[item.product_id].stock >= item.quantity
    THEN [prods EXCEPT ![item.product_id].stock = @ - item.quantity]
    ELSE [prods EXCEPT ![item.product_id].stock = 0]

\* "Reduce stock": one pass of the loop body
ReduceStockStep(prods, item) ==
    IF prods[item.product_id].stock >= item.quantity
    THEN [prods EXCEPT ![item.product_id].stock = @ - item.quantity]
    ELSE prods

\* the loop over cart_items, in order
RECURSIVE ReduceStock(_, _)
ReduceStock(prods, items) ==
    IF items = <<>> THEN prods
    ELSE ReduceStock(ReduceStockStep(prods, Head(items)), Tail(items))

\* "Clear cart": the rows of cart_items that are not among the deleted ones
ClearCart(c, items) ==
    SelectSeq(c, LAMBDA it : \A j \in 1..Len(items) : items[j].id # it.id)

\* wtforms DataRequired on a text field: the stripped value must not be empty
\* (the inputs of the model carry no surrounding blanks)
DataRequiredText(v) == v # ""
\* wtforms Length(min, max)
Length(v, min, max) == min <= Len(v) /\ Len(v) <= max

PaymentChoices == {"cod", "card"}

\* faulty variant, for comparison: the form accepted without a shipping address
CheckoutFormValid_AddressOptional(f) ==
    /\ DataRequiredText(f.shipping_name) /\ Len(f.shipping_name) <= 100
    /\ DataRequiredText(f.shipping_phone) /\ Length(f.shipping_phone, 10, 20)
    /\ f.payment_method \in PaymentChoices

\* CheckoutForm.validate_on_submit
CheckoutFormValid(f) ==
    /\ DataRequiredText(f.shipping_name) /\ Len(f.shipping_name) <= 100
    /\ DataRequiredText(f.shipping_phone) /\ Length(f.shipping_phone, 10, 20)
    /\ DataRequiredText(f.shipping_address)
    /\ DataRequiredText(f.shipping_city) /\ Len(f.shipping_city) <= 100
    /\ DataRequiredText(f.shipping_state) /\ Len(f.shipping_state) <= 100
    /\ DataRequiredText(f.shipping_pincode) /\ Len(f.shipping_pincode) <= 10
    /\ f.payment_method \in PaymentChoices

\* faulty variant, for comparison: the order addressed from the profile, not from the form
ShippingOf_Profile(u, f) ==
    [shipping_name |-> users[u].username,
     shipping_phone |-> IF users[u].phone = None THEN "" ELSE users[u].phone[1],
     shipping_address |-> IF users[u].address = None THEN "" ELSE users[u].address[1],
     shipping_city |-> IF users[u].city = None THEN "" ELSE users[u].city[1],
     shipping_state |-> IF users[u].state = None THEN "" ELSE users[u].state[1],
     shipping_pincode |-> IF users[u].pincode = None THEN "" ELSE users[u].pincode[1]]

\* the shipping columns of the Order of user u, from form.shipping_*.data
ShippingOf(u, f) ==
    [shipping_name |-> f.shipping_name, shipping_phone |-> f.shipping_phone,
     shipping_address |-> f.shipping_address, shipping_city |-> f.shipping_city,
     shipping_state |-> f.shipping_state, shipping_pincode |-> f.shipping_pincode]

\* str(int)
DigitChars == <<"0", "1", "2", "3", "4", "5", "6", "7", "8", "9">>

RECURSIVE Decimal(_)
Decimal(n) ==
    IF n < 10 THEN DigitChars[n + 1]
    ELSE Decimal(n \div 10) \o DigitChars[(n % 10) + 1]

\* the %d, %H, %M and %S fields of strftime: two digits, zero-padded
Pad2(n) == IF n < 10 THEN "0" \o Decimal(n) ELSE Decimal(n)

\* faulty variant, for comparison: the fields of the timestamp without padding
strftime_Unpadded(t) ==
    "20241" \o Decimal(1 + (t \div 86400)) \o Decimal((t % 86400) \div 3600)
        \o Decimal((t % 3600) \div 60) \o Decimal(t % 60)

\* datetime.now().strftime('%Y%m%d%H%M%S'), the clock counting the seconds
\* from 2024-01-01 00:00:00 and staying within that month
strftime(t) ==
    "202401" \o Pad2(1 + (t \div 86400)) \o Pad2((t % 86400) \div 3600)
        \o Pad2((t % 3600) \div 60) \o Pad2(t % 60)

\* f"AV{datetime.now().strftime('%Y%m%d%H%M%S')}{current_user.id}"
order_number(t, user_id) == "AV" \o strftime(t) \o Decimal(user_id)

\* faulty variant, for comparison: orders.order_number without its unique constraint
OrderNumberFree_NoConstraint(ords, number) == TRUE

\* the unique constraint of orders.order_number, checked by the INSERT of the flush
OrderNumberFree(ords, number) ==
    \A i \in 1..Len(ords) : ords[i].order_number # number

\* Order(...): status is passed, payment_status takes the column default
NewOrder(u, items, prods, f) ==
    LET ship == ShippingOf(u, f)
    IN [user_id |-> u, order_number |-> order_number(now, u),
        total_amount |-> CartTotal(items, prods),
        items |-> OrderItemsOf(items, prods),
        status |-> "pending", payment_status |-> "pending",
        shipping_name |-> ship.shipping_name, shipping_phone |-> ship.shipping_phone,
        shipping_address |-> ship.shipping_address, shipping_city |-> ship.shipping_city,
        shipping_state |-> ship.shipping_state,
        shipping_pincode |-> ship.shipping_pincode,
        payment_method |-> f.payment_method]

\* faulty variant, for comparison: the empty-cart check never taken
CartIsEmpty_Never(items) == FALSE

\* "if not cart_items"
CartIsEmpty(items) == items = <<>>

\* the tables as the session holds them when commit is called: the order flushed
\* with its items, the stock reduced, the cart rows deleted
CheckoutWork(u, cart_items, f) ==
    [orders |-> Append(orders, NewOrder(u, cart_items, products, f)),
     products |-> ReduceStock(products, cart_items),
     cart |-> ClearCart(cart, cart_items)]

\* faulty variant, for comparison: the stock reduced before the failure stays reduced
Rollback_KeepsStock(db, work) == [db EXCEPT !.products = work.products]

\* faulty variant, for comparison: the order flushed before the failure stays in the table
Rollback_KeepsFlushedOrder(db, work) == [db EXCEPT !.orders = work.orders]

\* db.session.rollback() of the 500 handler: the tables are what they were
Rollback(db, work) == db

\* the price edit made by the request handled just before, if it was one
PriorEdit(r) ==
    IF r.op = "admin_edit_product" /\ r.outcome = "ok"
    THEN [product |-> r.product, price |-> r.price]
    ELSE [product |-> 0, price |-> 0]

\* POST /checkout by user u with form f; committed tells whether
\* db.session.commit() succeeds. An order number that is taken makes the flush
\* raise IntegrityError, and the 500 handler rolls back.
checkout(u, f, committed) ==
    LET cart_items == CartOf(cart, u)
        db == [orders |-> orders, products |-> products, cart |-> cart]
        work == CheckoutWork(u, cart_items, f)
        done == committed /\ OrderNumberFree(orders, order_number(now, u))
        after == IF done THEN work ELSE Rollback(db, work)
    IN IF CartIsEmpty(cart_items)
       THEN /\ last' = [Request("checkout", "empty") EXCEPT !.user = u]
            /\ UNCHANGED tables
       ELSE IF ~CheckoutFormValid(f)
       THEN /\ last' = [Request("checkout", "invalid") EXCEPT !.user = u, !.form = f]
            /\ UNCHANGED tables
       ELSE /\ \A p \in DOMAIN products : work.products[p].stock <= MaxStock
            /\ orders' = after.orders
            /\ products' = after.products
            /\ cart' = after.cart
            /\ last' = [Request("checkout", IF done THEN "ok" ELSE "500") EXCEPT
                           !.user = u, !.stock = StockOf(products), !.form = f,
                           !.product = PriorEdit(last).product,
                           !.price = PriorEdit(last).price,
                           !.at = now, !.number = order_number(now, u),
                           !.entries = {cart_items[i].id : i \in 1..Len(cart_items)}]
            /\ UNCHANGED <<wishlist, comments, users, offers, now, inflight>>

TextOf(v) == IF v = None THEN "" ELSE v[1]

\* the checkout form as GET /checkout fills it in from the profile of user u
PrefilledForm(u) ==
    [shipping_name |-> users[u].username, shipping_phone |-> TextOf(users[u].phone),
     shipping_address |-> TextOf(users[u].address), shipping_city |-> TextOf(users[u].city),
     shipping_state |-> TextOf(users[u].state),
     shipping_pincode |-> TextOf(users[u].pincode), payment_method |-> "cod"]

\* GET /checkout by user u: the form filled in from the profile and rendered
checkout_page(u) ==
    LET cart_items == CartOf(cart, u)
    IN /\ last' = IF CartIsEmpty(cart_items)
                  THEN [Request("checkout_page", "empty") EXCEPT !.user = u]
                  ELSE [Request("checkout_page", "ok") EXCEPT
                          !.user = u, !.form = PrefilledForm(u)]
       /\ UNCHANGED tables

\* POST /checkout on a server thread, up to the validation of line 432: the
\* cart rows are read into the session of the request
checkout_query(t, u, f) ==
    LET cart_items == CartOf(cart, u)
    IN /\ inflight[t] = Idle
       /\ IF CartIsEmpty(cart_items)
          THEN /\ last' = [Request("checkout", "empty") EXCEPT !.user = u]
               /\ UNCHANGED tables
          ELSE IF ~CheckoutFormValid(f)
          THEN /\ last' = [Request("checkout", "invalid") EXCEPT !.user = u, !.form = f]
               /\ UNCHANGED tables
          ELSE /\ inflight' = [inflight EXCEPT ![t] =
                                  [op |-> "checkout", at |-> "validated", user_id |-> u,
                                   form |-> f, cart_items |-> cart_items]]
               /\ UNCHANGED <<products, cart, orders, last, users, offers, now,
                              wishlist, comments>>

\* lines 433 and 434 of that request: item.product is loaded for the total, and
\* the order number is made from the clock
checkout_total(t) ==
    LET r == inflight[t]
    IN /\ r.op = "checkout" /\ r.at = "validated"
       /\ inflight' = [inflight EXCEPT ![t] =
                          [op |-> "checkout", at |-> "priced", user_id |-> r.user_id,
                           form |-> r.form, cart_items |-> r.cart_items,
                           products |-> products,
                           number |-> order_number(now, r.user_id)]]
       /\ UNCHANGED <<products, cart, orders, last, users, offers, now, wishlist, comments>>

\* faulty variant, for comparison: the stock reduced from what the table holds at commit
StockWrite_Fresh(current, loaded, items) == ReduceStock(current, items)

\* UPDATE products SET stock=?: the session writes the stock it computed from
\* the rows it loaded, for the products whose stock it changed
StockWrite(current, loaded, items) ==
    LET reduced == ReduceStock(loaded, items)
    IN [p \in DOMAIN current |->
           IF reduced[p].stock # loaded[p].stock
           THEN [current[p] EXCEPT !.stock = reduced[p].stock]
           ELSE current[p]]

\* the rest of that request, lines 436 to 471; SQLite lets one connection write
\* at a time, so the flush and the commit of a request are not interleaved with
\* those of another. A DELETE that matches no row is only warned about.
checkout_commit(t) ==
    LET r == inflight[t]
        u == r.user_id
        order == [NewOrder(u, r.cart_items, r.products, r.form) EXCEPT
                     !.order_number = r.number]
        asked == [Request("checkout", "ok") EXCEPT
                     !.user = u, !.stock = StockOf(r.products), !.form = r.form,
                     !.at = now, !.number = r.number,
                     !.entries = {r.cart_items[i].id : i \in 1..Len(r.cart_items)}]
    IN /\ r.op = "checkout" /\ r.at = "priced"
       /\ inflight' = [inflight EXCEPT ![t] = Idle]
       /\ IF ~OrderNumberFree(orders, r.number)
          THEN /\ last' = [asked EXCEPT !.outcome = "500"]
               /\ UNCHANGED <<products, cart, orders, users, offers, now, wishlist, comments>>
          ELSE /\ orders' = Append(orders, order)
               /\ products' = StockWrite(products, r.products, r.cart_items)
               /\ cart' = ClearCart(cart, r.cart_items)
               /\ last' = asked
               /\ UNCHANGED <<users, offers, now, wishlist, comments>>

\* the model's bound on the orders table
CheckoutInBounds(u, max) == CartOf(cart, u) = <<>> \/ Len(orders) < max

(* ------------------------------ admin_edit_product --------------------- *)
\* wtforms DataRequired on a number field: the value must be truthy
DataRequired(v) == v # 0
\* wtforms NumberRange(min=0)
NumberRangeMin0(v) == v >= 0

\* ProductForm.validate_on_submit for the fields price, discount_price, stock
ProductFormValid(price, discount, stock) ==
    /\ DataRequired(price) /\ NumberRangeMin0(price)
    /\ (discount # None => NumberRangeMin0(discount[1]))
    /\ DataRequired(stock) /\ NumberRangeMin0(stock)

\* the user database.py creates first
Admin == 1
is_admin(u) == u = Admin

\* who sends a request: a user, or 0 for a visitor who is not logged in
Requesters == {0} \cup Users
is_authenticated(u) == u \in Users

\* faulty variant, for comparison: the decorator asking for a login only
admin_required_LoginOnly(u) == is_authenticated(u)

\* the decorator lets the request through to the handler
admin_required(u) == ~(~is_authenticated(u) \/ ~is_admin(u))

\* faulty variant, for comparison: the items already ordered follow the new price
admin_edit_product_RepricesOrders(u, p, price, discount, stock, active) ==
    /\ admin_required(u) /\ p \in DOMAIN products /\ ProductFormValid(price, discount, stock)
    /\ products' = [products EXCEPT ![p] =
                       [price |-> price, discount_price |-> discount, stock |-> stock,
                        is_active |-> active]]
    /\ orders' = [i \in 1..Len(orders) |->
                     [orders[i] EXCEPT !.items =
                         [j \in 1..Len(orders[i].items) |->
                             IF orders[i].items[j].product_id = p
                             THEN [orders[i].items[j] EXCEPT
                                     !.price = get_final_price(products'[p])]
                             ELSE orders[i].items[j]]]]
    /\ last' = [Request("admin_edit_product", "ok") EXCEPT
                   !.user = u, !.product = p, !.price = get_final_price(products[p])]
    /\ UNCHANGED <<wishlist, comments, users, offers, now, cart, inflight>>

admin_edit_product(u, p, price, discount, stock, active) ==
    IF ~admin_required(u)
    THEN /\ last' = [Request("admin_edit_product", "redirect") EXCEPT !.user = u]
         /\ UNCHANGED tables
    ELSE IF p \notin DOMAIN products
    THEN /\ last' = [Request("admin_edit_product", "404") EXCEPT !.user = u]
         /\ UNCHANGED tables
    ELSE IF ProductFormValid(price, discount, stock)
    THEN /\ products' = [products EXCEPT ![p] =
                            [price |-> price, discount_price |-> discount, stock |-> stock,
                             is_active |-> active]]
         /\ last' = [Request("admin_edit_product", "ok") EXCEPT
                        !.user = u, !.product = p, !.price = get_final_price(products[p])]
         /\ UNCHANGED <<wishlist, comments, users, offers, now, cart, orders, inflight>>
    ELSE /\ last' = [Request("admin_edit_product", "invalid") EXCEPT !.user = u]
         /\ UNCHANGED tables

(* ------------------------------ admin_update_order --------------------- *)
\* orders are never deleted, so the id of an order is its position in the table
admin_update_order(u, order_id, status) ==
    IF ~admin_required(u)
    THEN /\ last' = [Request("admin_update_order", "redirect") EXCEPT !.user = u]
         /\ UNCHANGED tables
    ELSE IF order_id \notin 1..Len(orders)
    THEN /\ last' = [Request("admin_update_order", "404") EXCEPT !.user = u]
         /\ UNCHANGED tables
    ELSE /\ orders' = [orders EXCEPT ![order_id].status = status]
         /\ last' = [Request("admin_update_order", "ok") EXCEPT !.user = u, !.item = order_id]
         /\ UNCHANGED <<wishlist, comments, products, cart, inflight, users, offers, now>>

(* ------------------------------ admin_add_product ---------------------- *)
\* the rowid SQLite gives the next product
NewProductId(prods) == IF DOMAIN prods = {} THEN 1 ELSE MaxOf(DOMAIN prods) + 1

admin_add_product(u, price, discount, stock, active) ==
    LET id == NewProductId(products)
        row == [price |-> price, discount_price |-> discount, stock |-> stock,
                is_active |-> active]
    IN IF ~admin_required(u)
       THEN /\ last' = [Request("admin_add_product", "redirect") EXCEPT !.user = u]
            /\ UNCHANGED tables
       ELSE IF ~ProductFormValid(price, discount, stock)
       THEN /\ last' = [Request("admin_add_product", "invalid") EXCEPT !.user = u]
            /\ UNCHANGED tables
       ELSE /\ id <= MaxProducts
            /\ products' = [q \in DOMAIN products \cup {id} |->
                               IF q = id THEN row ELSE products[q]]
            /\ last' = [Request("admin_add_product", "ok") EXCEPT !.user = u, !.product = id]
            /\ UNCHANGED <<cart, orders, inflight, users, offers, now, wishlist, comments>>

(* ------------------------------ admin_delete_product ------------------- *)
\* the rows that hold the product in a product_id column that is not nullable:
\* the session sets the column to NULL when the product goes, and the UPDATE fails
ProductReferenced(p) ==
    \/ \E i \in 1..Len(cart) : cart[i].product_id = p
    \/ \E i \in 1..Len(wishlist) : wishlist[i].product_id = p
    \/ \E i \in 1..Len(orders) : \E j \in 1..Len(orders[i].items) :
          orders[i].items[j].product_id = p

admin_delete_product(u, p) ==
    IF ~admin_required(u)
    THEN /\ last' = [Request("admin_delete_product", "redirect") EXCEPT
                        !.user = u, !.product = p]
         /\ UNCHANGED tables
    ELSE IF p \notin DOMAIN products
    THEN /\ last' = [Request("admin_delete_product", "404") EXCEPT !.user = u, !.product = p]
         /\ UNCHANGED tables
    ELSE IF ProductReferenced(p)
    THEN /\ last' = [Request("admin_delete_product", "500") EXCEPT !.user = u, !.product = p]
         /\ UNCHANGED tables
    ELSE /\ products' = [q \in DOMAIN products \ {p} |-> products[q]]
         /\ last' = [Request("admin_delete_product", "ok") EXCEPT !.user = u, !.product = p]
         /\ UNCHANGED <<cart, orders, inflight, users, offers, now, wishlist, comments>>

(* ------------------------------ admin offers --------------------------- *)
\* OfferForm.validate_on_submit for the fields title and discount_percentage
OfferFormValid(title, discount_percentage) ==
    /\ DataRequiredText(title)
    /\ DataRequired(discount_percentage)
    /\ 0 <= discount_percentage /\ discount_percentage <= 100

\* POST /admin/add_offer: the handler sets no end_date
admin_add_offer(u, title, discount_percentage, active) ==
    IF ~admin_required(u)
    THEN /\ last' = [Request("admin_add_offer", "redirect") EXCEPT !.user = u]
         /\ UNCHANGED tables
    ELSE IF ~OfferFormValid(title, discount_percentage)
    THEN /\ last' = [Request("admin_add_offer", "invalid") EXCEPT !.user = u]
         /\ UNCHANGED tables
    ELSE /\ NewCartId(offers) <= MaxOffers
         /\ offers' = Append(offers, [id |-> NewCartId(offers), is_active |-> active,
                                       end_date |-> None])
         /\ last' = [Request("admin_add_offer", "ok") EXCEPT !.user = u]
         /\ UNCHANGED <<products, cart, orders, inflight, users, now, wishlist, comments>>

admin_delete_offer(u, offer_id) ==
    IF ~admin_required(u)
    THEN /\ last' = [Request("admin_delete_offer", "redirect") EXCEPT
                        !.user = u, !.item = offer_id]
         /\ UNCHANGED tables
    ELSE IF IdxOfId(offers, offer_id) = 0
    THEN /\ last' = [Request("admin_delete_offer", "404") EXCEPT !.user = u, !.item = offer_id]
         /\ UNCHANGED tables
    ELSE /\ offers' = RemoveAt(offers, IdxOfId(offers, offer_id))
         /\ last' = [Request("admin_delete_offer", "ok") EXCEPT !.user = u, !.item = offer_id]
         /\ UNCHANGED <<products, cart, orders, inflight, users, now, wishlist, comments>>

(* ------------------------------ comments ------------------------------- *)
CommentTypes == {"request", "suggestion", "feedback"}

\* CommentForm.validate_on_submit for the fields comment_type and message
CommentFormValid(comment_type, message) ==
    /\ comment_type \in CommentTypes
    /\ DataRequiredText(message) /\ Length(message, 10, 1000)

\* POST /comments by user u
comments_post(u, comment_type, message) ==
    IF ~CommentFormValid(comment_type, message)
    THEN /\ last' = [Request("comments", "invalid") EXCEPT !.user = u]
         /\ UNCHANGED tables
    ELSE /\ NewCartId(comments) <= MaxComments
         /\ comments' = Append(comments,
                            [id |-> NewCartId(comments), user_id |-> u,
                             comment_type |-> comment_type, message |-> message,
                             is_answered |-> FALSE, admin_response |-> None,
                             responded_by |-> None])
         /\ last' = [Request("comments", "ok") EXCEPT !.user = u]
         /\ UNCHANGED <<products, cart, orders, inflight, users, offers, now, wishlist>>

\* POST /admin/respond_comment/<comment_id>
admin_respond_comment(u, comment_id, response) ==
    LET i == IdxOfId(comments, comment_id)
    IN IF ~admin_required(u)
       THEN /\ last' = [Request("admin_respond_comment", "redirect") EXCEPT
                           !.user = u, !.item = comment_id]
            /\ UNCHANGED tables
       ELSE IF i = 0
       THEN /\ last' = [Request("admin_respond_comment", "404") EXCEPT
                           !.user = u, !.item = comment_id]
            /\ UNCHANGED tables
       ELSE /\ comments' = [comments EXCEPT ![i].admin_response = Some(response),
                                            ![i].is_answered = TRUE,
                                            ![i].responded_by = Some(u)]
            /\ last' = [Request("admin_respond_comment", "ok") EXCEPT
                           !.user = u, !.item = comment_id]
            /\ UNCHANGED <<products, cart, orders, inflight, users, offers, now, wishlist>>

(* ------------------------------ profile -------------------------------- *)
\* wtforms Email(): the addresses of the model that are well formed
WellFormedEmails == {"admin@avbrands.com", "asha@example.com"}
Email(v) == v \in WellFormedEmails

\* ProfileForm.validate_on_submit; the other fields are Optional()
ProfileFormValid(f) ==
    /\ DataRequiredText(f.username) /\ Length(f.username, 3, 50)
    /\ DataRequiredText(f.email) /\ Email(f.email)

\* users.username and users.email are unique
ProfileUnique(u, f) ==
    \A v \in Users \ {u} : users[v].username # f.username /\ users[v].email # f.email

\* the profile columns as the handler assigns them from the form
ProfileRow(f) ==
    [username |-> f.username, email |-> f.email,
     phone |-> Some(f.phone), address |-> Some(f.address),
     city |-> Some(f.city), state |-> Some(f.state),
     pincode |-> Some(f.pincode)]

\* faulty variant, for comparison: the orders of the user are readdressed with the profile
profile_ReaddressesOrders(u, f) ==
    /\ ProfileFormValid(f) /\ ProfileUnique(u, f)
    /\ users' = [users EXCEPT ![u] = ProfileRow(f)]
    /\ orders' = [i \in 1..Len(orders) |->
                     IF orders[i].user_id = u
                     THEN [orders[i] EXCEPT
                             !.shipping_name = f.username, !.shipping_phone = f.phone,
                             !.shipping_address = f.address, !.shipping_city = f.city,
                             !.shipping_state = f.state, !.shipping_pincode = f.pincode]
                     ELSE orders[i]]
    /\ last' = [Request("profile", "ok") EXCEPT !.user = u]
    /\ UNCHANGED <<wishlist, comments, products, cart, inflight, offers, now>>

\* POST /profile by user u with form f; the UPDATE that breaks a unique
\* constraint raises IntegrityError and the 500 handler rolls back
profile(u, f) ==
    IF ~ProfileFormValid(f)
    THEN /\ last' = [Request("profile", "invalid") EXCEPT !.user = u]
         /\ UNCHANGED tables
    ELSE IF ~ProfileUnique(u, f)
    THEN /\ last' = [Request("profile", "500") EXCEPT !.user = u]
         /\ UNCHANGED tables
    ELSE /\ users' = [users EXCEPT ![u] = ProfileRow(f)]
         /\ last' = [Request("profile", "ok") EXCEPT !.user = u]
         /\ UNCHANGED <<wishlist, comments, products, cart, orders, inflight, offers, now>>

(* ------------------------------ index ---------------------------------- *)
\* Offer.query.filter_by(is_active=True).all(), then the is_valid() filter
ActiveOffers(offs) == {i \in 1..Len(offs) : offs[i].is_active}

index ==
    /\ last' = [Request("index", "ok") EXCEPT
                   !.at = now,
                   !.shown = {i \in ActiveOffers(offers) : is_valid(offers[i], now)}]
    /\ UNCHANGED tables

(* ------------------------------ shop ----------------------------------- *)
\* faulty variant, for comparison: the bounds applied to the price the customer pays
PriceFilter_FinalPrice(p, min_price, max_price) ==
    /\ (min_price # None => get_final_price(p) >= min_price[1])
    /\ (max_price # None => get_final_price(p) <= max_price[1])

\* the filters for min_price and max_price, each applied when the argument is given
PriceFilter(p, min_price, max_price) ==
    /\ (min_price # None => p.discount_price # None /\ p.discount_price[1] >= min_price[1])
    /\ (max_price # None => p.discount_price # None /\ p.discount_price[1] <= max_price[1])

\* GET /shop with the price arguments: the ids of the products listed
shop(min_price, max_price) ==
    /\ last' = [Request("shop", "ok") EXCEPT
                   !.min_price = min_price, !.max_price = max_price,
                   !.shown = {p \in DOMAIN products :
                                /\ products[p].is_active
                                /\ PriceFilter(products[p], min_price, max_price)}]
    /\ UNCHANGED tables

\* the clock of the server moves on
tick ==
    /\ now < MaxTime
    /\ now' = now + 1
    /\ UNCHANGED <<wishlist, comments, products, cart, orders, last, inflight, users, offers>>

(* ------------------------------ specification -------------------------- *)
\* a checkout form filled in with an address that is in no profile
GiftForm ==
    [shipping_name |-> "Ravi", shipping_phone |-> "9888888888",
     shipping_address |-> "42 Temple Road", shipping_city |-> "Hubli",
     shipping_state |-> "Karnataka", shipping_pincode |-> "580020",
     payment_method |-> "cod"]

\* the sample offer of init_db: active, without end_date
InitOffers == <<[id |-> 1, is_active |-> TRUE, end_date |-> None]>>

\* the admin of init_db and a customer as register() leaves one
InitUsers == [u \in Users |->
    IF u = 1
    THEN [username |-> "admin", email |-> "admin@avbrands.com",
          phone |-> Some("+91 9876543210"), address |-> Some("123 Fashion Street"),
          city |-> Some("Bangalore"), state |-> Some("Karnataka"),
          pincode |-> Some("560001")]
    ELSE [username |-> "asha", email |-> "asha@example.com",
          phone |-> Some("9000000002"), address |-> None,
          city |-> None, state |-> None, pincode |-> None]]

Init ==
    /\ products = InitProducts
    /\ cart = <<>>
    /\ orders = <<>>
    /\ last = Request("none", "ok")
    /\ inflight = [t \in Threads |-> Idle]
    /\ users = InitUsers
    /\ offers = InitOffers
    /\ now = 0
    /\ wishlist = <<>>
    /\ comments = <<>>

\* the cart requests of the owners, checkout, and admin edits of the stock field
Next ==
    \/ \E k \in CartKeys, q \in QuantityInputs : add_to_cart(k[1], k[2], q, k[3], k[4])
    \/ \E i \in 1..Len(cart), q \in QuantityInputs :
          update_cart(cart[i].user_id, cart[i].id, q)
    \/ \E i \in 1..Len(cart) : remove_from_cart(cart[i].user_id, cart[i].id)
    \/ \E u \in Users : CheckoutInBounds(u, MaxOrders) /\ checkout(u, GiftForm, TRUE)
    \/ \E p \in {k[2] : k \in CartKeys}, stock \in StockInputs :
          admin_edit_product(Admin, p, products[p].price, products[p].discount_price, stock,
                             products[p].is_active)

Spec == Init /\ [][Next]_vars

\* the catalogue under price edits: user 1 puts two units of product 1 and one
\* of product 2 in the cart and checks out, the admin resubmits the product
\* form with other prices
PriceRequests == {<<1, 1, None, None, 2>>, <<1, 2, None, None, 1>>}

NextPrice ==
    \/ \E r \in PriceRequests : add_to_cart(r[1], r[2], r[5], r[3], r[4])
    \/ \E i \in 1..Len(cart) : remove_from_cart(cart[i].user_id, cart[i].id)
    \/ \E u \in Users : CheckoutInBounds(u, MaxOrders) /\ checkout(u, GiftForm, TRUE)
    \/ \E p \in Products, price \in PriceInputs, discount \in DiscountInputs :
          admin_edit_product(Admin, p, price, discount, products[p].stock,
                             products[p].is_active)

SpecPrice == Init /\ [][NextPrice]_vars

\* requests that overlap: add_to_cart split between its query and its commit on
\* two server threads, with removals in between
ConcKeys == {<<1, 1, None, None>>, <<2, 1, None, None>>}
ConcQuantities == {1, 2}

NextConc ==
    \/ \E t \in Threads, k \in ConcKeys, q \in ConcQuantities :
          add_to_cart_query(t, k[1], k[2], q, k[3], k[4])
    \/ \E t \in Threads : add_to_cart_commit(t)
    \/ \E i \in 1..Len(cart) : remove_from_cart(cart[i].user_id, cart[i].id)

SpecConc == Init /\ [][NextConc]_vars

\* orders and the profiles: two orders at most, placed with the profile's
\* address or another one, commits that fail, and profile updates
MaxHistory == 2

OrderRequests == {<<1, 1, None, None>>, <<2, 1, None, None>>}

CheckoutForms(u) == {PrefilledForm(u), GiftForm}

ProfileForms ==
    {[username |-> "asha k", email |-> "asha@example.com", phone |-> "9111111111",
      address |-> "7 Lake Road", city |-> "Mysore", state |-> "Karnataka",
      pincode |-> "570001"],
     [username |-> "asha m", email |-> "asha@example.com", phone |-> "9222222222",
      address |-> "9 Hill Road", city |-> "Udupi", state |-> "Kerala",
      pincode |-> "576101"],
     [username |-> "admin", email |-> "admin@avbrands.com", phone |-> "",
      address |-> "", city |-> "", state |-> "", pincode |-> ""],
     [username |-> "ab", email |-> "asha", phone |-> "", address |-> "", city |-> "",
      state |-> "", pincode |-> ""]}

NextOrders ==
    \/ \E k \in OrderRequests : add_to_cart(k[1], k[2], 1, k[3], k[4])
    \/ \E u \in Users, committed \in BOOLEAN : \E f \in CheckoutForms(u) :
          CheckoutInBounds(u, MaxHistory) /\ checkout(u, f, committed)
    \/ \E u \in Users, f \in ProfileForms : profile(u, f)
    \/ \E u \in Users : checkout_page(u)

SpecOrders == Init /\ [][NextOrders]_vars

\* the orders once placed: cart requests, further checkouts, status updates by
\* the admin and price edits of the ordered product
\* request.form.get('status'): any text the client sends
StatusInputs == {"pending", "processing", "shipped", "refunded"}

OrderPriceEdits == {<<1, None>>, <<3, Some(2)>>}

NextHistory ==
    \/ \E k \in OrderRequests : add_to_cart(k[1], k[2], 1, k[3], k[4])
    \/ \E i \in 1..Len(cart) : remove_from_cart(cart[i].user_id, cart[i].id)
    \/ \E u \in Users : CheckoutInBounds(u, MaxHistory) /\ checkout(u, GiftForm, TRUE)
    \/ \E id \in 1..MaxHistory, status \in StatusInputs :
          admin_update_order(Admin, id, status)
    \/ \E e \in OrderPriceEdits :
          admin_edit_product(Admin, 1, e[1], e[2], products[1].stock, products[1].is_active)

SpecHistory == Init /\ [][NextHistory]_vars

\* the cart handlers asked by every user for every cart_items id, the entries
\* of other users and the ids that do not exist included
CartIds == 1..MaxCart

NextCart ==
    \/ \E k \in CartKeys, q \in ConcQuantities : add_to_cart(k[1], k[2], q, k[3], k[4])
    \/ \E u \in Users, id \in CartIds, q \in QuantityInputs : update_cart(u, id, q)
    \/ \E u \in Users, id \in CartIds : remove_from_cart(u, id)

SpecCart == Init /\ [][NextCart]_vars

\* the home page over every offers table of two rows, at every time
EndDates == {None} \cup {Some(t) : t \in 0..MaxTime}
OfferRows == [is_active : BOOLEAN, end_date : EndDates]

InitOffer ==
    /\ products = InitProducts
    /\ cart = <<>>
    /\ orders = <<>>
    /\ last = Request("none", "ok")
    /\ inflight = [t \in Threads |-> Idle]
    /\ users = InitUsers
    /\ \E rows \in [1..2 -> OfferRows] :
          offers = [i \in 1..2 |-> [id |-> i, is_active |-> rows[i].is_active,
                                    end_date |-> rows[i].end_date]]
    /\ now \in 0..MaxTime
    /\ wishlist = <<>>
    /\ comments = <<>>

NextOffer ==
    \/ index
    \/ tick

SpecOffer == InitOffer /\ [][NextOffer]_vars

\* the order number over clock readings and user ids of one, two and three
\* digits: line 434 of checkout on its own
ClockInputs == (0..11) \cup {59, 60, 61, 3599, 3600, 3661, 86399, 86400, 86461}
UserIds == {1, 2, 10, 11, 12, 21, 101}

generate_order_number(u) ==
    /\ last' = [Request("order_number", "ok") EXCEPT
                   !.user = u, !.at = now, !.number = order_number(now, u)]
    /\ UNCHANGED tables

InitNumber ==
    /\ products = InitProducts
    /\ cart = <<>>
    /\ orders = <<>>
    /\ last = Request("none", "ok")
    /\ inflight = [t \in Threads |-> Idle]
    /\ users = InitUsers
    /\ offers = InitOffers
    /\ now \in ClockInputs
    /\ wishlist = <<>>
    /\ comments = <<>>

NextNumber == \E u \in UserIds : generate_order_number(u)

SpecNumber == InitNumber /\ [][NextNumber]_vars

\* checkouts as the clock moves on: both users order product 1, again and again
NextUnique ==
    \/ \E k \in OrderRequests : add_to_cart(k[1], k[2], 1, k[3], k[4])
    \/ \E u \in Users : Len(orders) <= MaxHistory /\ checkout(u, GiftForm, TRUE)
    \/ tick

SpecUnique == Init /\ [][NextUnique]_vars

\* the shop page over every catalogue of two products, for every pair of bounds
ProductRows ==
    [price : {1, 3}, discount_price : DiscountInputs, stock : {1}, is_active : BOOLEAN]

\* request.args.get('min_price', type=float): absent, or a number
PriceBounds == {None, Some(0), Some(1), Some(2), Some(3)}

InitShop ==
    /\ products \in [Products -> ProductRows]
    /\ cart = <<>>
    /\ orders = <<>>
    /\ last = Request("none", "ok")
    /\ inflight = [t \in Threads |-> Idle]
    /\ users = InitUsers
    /\ offers = InitOffers
    /\ now = 0
    /\ wishlist = <<>>
    /\ comments = <<>>

NextShop == \E min_price \in PriceBounds, max_price \in PriceBounds : shop(min_price, max_price)

SpecShop == InitShop /\ [][NextShop]_vars

\* every request that could touch the stock: the cart and the wishlist of the
\* customer, checkouts that succeed, are refused or fail, status updates and
\* stock edits by the admin
WishlistRequests == {<<2, 1>>, <<2, 2>>}

NextFrame ==
    \/ \E q \in ConcQuantities : add_to_cart(2, 1, q, None, None)
    \/ \E i \in 1..Len(cart), q \in QuantityInputs :
          update_cart(cart[i].user_id, cart[i].id, q)
    \/ \E i \in 1..Len(cart) : remove_from_cart(cart[i].user_id, cart[i].id)
    \/ \E k \in WishlistRequests : add_to_wishlist(k[1], k[2])
    \/ \E u \in Users, id \in 1..MaxWishlist : remove_from_wishlist(u, id)
    \/ \E u \in Users, committed \in BOOLEAN : \E f \in CheckoutForms(u) :
          CheckoutInBounds(u, MaxOrders) /\ checkout(u, f, committed)
    \/ \E id \in 1..MaxOrders, status \in StatusInputs :
          admin_update_order(Admin, id, status)
    \/ \E stock \in StockInputs :
          admin_edit_product(Admin, 1, products[1].price, products[1].discount_price,
                             stock, products[1].is_active)

SpecFrame == Init /\ [][NextFrame]_vars

\* the admin pages asked by the admin, by a customer and by a visitor, with a
\* customer who has ordered and commented
AdminProductForms == {<<1, None, MaxStock, FALSE>>}

NextAdmin ==
    \/ add_to_cart(2, 2, 1, None, None)
    \/ CheckoutInBounds(2, MaxOrders) /\ checkout(2, GiftForm, TRUE)
    \/ comments_post(2, "feedback", "Please stock more sizes")
    \/ \E u \in Requesters, f \in AdminProductForms :
          admin_add_product(u, f[1], f[2], f[3], f[4])
    \/ \E u \in Requesters, f \in AdminProductForms :
          admin_edit_product(u, 1, f[1], f[2], f[3], f[4])
    \/ \E u \in Requesters, p \in Products : admin_delete_product(u, p)
    \/ \E u \in Requesters, id \in 1..MaxOrders : admin_update_order(u, id, "shipped")
    \/ \E u \in Requesters : admin_add_offer(u, "Sale", 30, TRUE)
    \/ \E u \in Requesters, id \in 1..MaxOffers : admin_delete_offer(u, id)
    \/ \E u \in Requesters, id \in 1..MaxComments :
          admin_respond_comment(u, id, "Thank you")

SpecAdmin == Init /\ [][NextAdmin]_vars

\* checkouts that overlap: both customers put product 1 in the cart, and each
\* checkout is split on a server thread between reading the cart, loading the
\* products and writing
NextRace ==
    \/ \E k \in ConcKeys : add_to_cart(k[1], k[2], 1, k[3], k[4])
    \/ \E t \in Threads, u \in Users : checkout_query(t, u, GiftForm)
    \/ \E t \in Threads : checkout_total(t)
    \/ \E t \in Threads : Len(orders) < MaxHistory /\ checkout_commit(t)

SpecRace == Init /\ [][NextRace]_vars

\* the checkout sent twice: user 1 submits the form on both threads while the
\* clock moves, and user 2 keeps shopping
NextTwice ==
    \/ \E k \in ConcKeys : add_to_cart(k[1], k[2], 1, k[3], k[4])
    \/ \E t \in Threads : checkout_query(t, 1, GiftForm)
    \/ \E t \in Threads : checkout_total(t)
    \/ \E t \in Threads : Len(orders) < MaxHistory /\ checkout_commit(t)
    \/ tick

SpecTwice == Init /\ [][NextTwice]_vars

(* ============================== claims ================================= *)
NewestOrder == orders[Len(orders)]

\* sum(item.price * item.quantity for item in order.items)
ItemsSum(o) == SumSeq([j \in 1..Len(o.items) |-> get_total(o.items[j])])

\* C1: every order's total_amount equals the sum over its OrderItems of
\* price * quantity, in every state, also after admin edits of the prices of
\* the ordered products.
C1_TotalIsSumOfItems ==
    \A i \in 1..Len(orders) : orders[i].total_amount = ItemsSum(orders[i])

\* an order of two items stands while the catalogue price of an ordered product
\* has been edited away from the price frozen in the item
C1_Witness ==
    /\ last.op = "admin_edit_product" /\ last.outcome = "ok"
    /\ \E i \in 1..Len(orders) :
          /\ Len(orders[i].items) = 2
          /\ \E j \in 1..Len(orders[i].items) :
                get_final_price(products[orders[i].items[j].product_id])
                    # orders[i].items[j].price

\* C2: a checkout request by a user whose cart has no entries changes no
\* order, order item, product stock or cart entry of any user.
C2_EmptyCheckoutNoMutation ==
    [][(last'.op = "checkout" /\ CartOf(cart, last'.user) = <<>>)
          => (orders' = orders /\ products' = products /\ cart' = cart)]_vars

\* the empty-cart answer was given while another user's cart held entries and
\* an order existed
C2_Witness ==
    /\ last.op = "checkout" /\ last.outcome = "empty"
    /\ CartOf(cart, last.user) = <<>>
    /\ cart # <<>>
    /\ orders # <<>>

\* C3: after a successful checkout by u, u has no cart entries, exactly one
\* new Order, owned by u, exists, and it has one OrderItem per cart entry u
\* had, each with that entry's product, quantity, size and color.
C3_CheckoutPostcondition ==
    [][(/\ last'.op = "checkout" /\ last'.outcome = "ok"
        /\ CartOf(cart, last'.user) # <<>>)
          => LET u == last'.user
                 had == CartOf(cart, u)
                 o == orders'[Len(orders')]
             IN /\ CartOf(cart', u) = <<>>
                /\ Len(orders') = Len(orders) + 1
                /\ SubSeq(orders', 1, Len(orders)) = orders
                /\ o.user_id = u
                /\ Len(o.items) = Len(had)
                /\ \A j \in 1..Len(had) :
                      /\ o.items[j].product_id = had[j].product_id
                      /\ o.items[j].quantity = had[j].quantity
                      /\ o.items[j].size = had[j].size
                      /\ o.items[j].color = had[j].color]_vars

\* a checkout turned a cart of two variants of one product into an order of two
\* items, one with a size and one without
C3_Witness ==
    /\ last.op = "checkout" /\ last.outcome = "ok"
    /\ NewestOrder.user_id = last.user
    /\ Len(NewestOrder.items) = 2
    /\ NewestOrder.items[1].size # NewestOrder.items[2].size
    /\ CartOf(cart, last.user) = <<>>

Min(a, b) == IF a <= b THEN a ELSE b

\* the quantities of the entries of product p in a cart, in cart order
QuantitiesOf(items, p) ==
    LET of_p == SelectSeq(items, LAMBDA it : it.product_id = p)
    IN [j \in 1..Len(of_p) |-> of_p[j].quantity]

\* the stock left of s after the quantities qs were asked for one after another,
\* each taken only when the stock still covers it
RECURSIVE StockAfter(_, _)
StockAfter(s, qs) ==
    IF qs = <<>> THEN s
    ELSE StockAfter(IF Head(qs) <= s THEN s - Head(qs) ELSE s, Tail(qs))

\* C4 as stated: after a successful checkout the stock of each ordered product
\* has decreased by min(orderedQty, stock when the checkout started). Stated
\* for the products ordered through a single entry of quantity >= 1.
C4_Original_DecreaseByMin ==
    [][(/\ last'.op = "checkout" /\ last'.outcome = "ok"
        /\ CartOf(cart, last'.user) # <<>>)
          => \A p \in Products :
                LET qs == QuantitiesOf(CartOf(cart, last'.user), p)
                IN (Len(qs) = 1 /\ qs[1] >= 1) =>
                      products'[p].stock =
                          products[p].stock - Min(qs[1], products[p].stock)]_vars

\* C4 amended: after a successful checkout the stock of each ordered product
\* has decreased by the quantities of exactly those of its entries that the
\* stock still covered when they were processed: by orderedQty when a single
\* entry's quantity is <= the available stock, and by nothing when it exceeds it.
C4_DecreaseByQtyOrNothing ==
    [][(/\ last'.op = "checkout" /\ last'.outcome = "ok"
        /\ CartOf(cart, last'.user) # <<>>)
          => \A p \in Products :
                LET qs == QuantitiesOf(CartOf(cart, last'.user), p)
                IN /\ products'[p].stock = StockAfter(products[p].stock, qs)
                   /\ (Len(qs) = 1 /\ qs[1] <= products[p].stock)
                         => products'[p].stock = products[p].stock - qs[1]
                   /\ (Len(qs) = 1 /\ qs[1] > products[p].stock)
                         => products'[p].stock = products[p].stock]_vars

\* a checkout of a single entry that asked for more than the stock that was
\* there, and the stock, which was not zero, is what it was
C4_Witness ==
    /\ last.op = "checkout" /\ last.outcome = "ok"
    /\ Len(NewestOrder.items) = 1
    /\ LET it == NewestOrder.items[1]
       IN /\ last.stock[it.product_id] > 0
          /\ it.quantity > last.stock[it.product_id]
          /\ products[it.product_id].stock = last.stock[it.product_id]

\* the stock maps met while a cart is processed entry by entry, from the stock
\* found (index 0) to the stock left (index Len(items))
StockTrace(stock0, items) ==
    LET f[k \in 0..Len(items)] ==
            IF k = 0 THEN stock0
            ELSE LET p == items[k].product_id
                     q == items[k].quantity
                 IN IF f[k - 1][p] >= q THEN [f[k - 1] EXCEPT ![p] = @ - q] ELSE f[k - 1]
    IN f

\* C5: checkout processes the cart entries one after another; each entry lowers
\* its product's stock by its quantity if and only if the stock at that moment
\* is >= the quantity, leaves it unchanged otherwise, and gets its OrderItem in
\* both cases, also when entries of one cart are variants of one product.
C5_PerEntryConditionalDecrement ==
    [][(/\ last'.op = "checkout" /\ last'.outcome = "ok"
        /\ CartOf(cart, last'.user) # <<>>)
          => LET had == CartOf(cart, last'.user)
                 tr == StockTrace(StockOf(products), had)
             IN /\ StockOf(products') = tr[Len(had)]
                /\ Len(orders'[Len(orders')].items) = Len(had)
                /\ \A k \in 1..Len(had) :
                      orders'[Len(orders')].items[k].quantity = had[k].quantity]_vars

\* a checkout of two variants of one product: the first entry took the stock it
\* asked for, the second asked for more than was left and took nothing, and
\* both are in the order
C5_Witness ==
    /\ last.op = "checkout" /\ last.outcome = "ok"
    /\ Len(NewestOrder.items) = 2
    /\ LET a == NewestOrder.items[1]
           b == NewestOrder.items[2]
       IN /\ a.product_id = b.product_id
          /\ a.size # b.size
          /\ a.quantity >= 1 /\ a.quantity <= last.stock[a.product_id]
          /\ b.quantity > last.stock[a.product_id] - a.quantity
          /\ products[a.product_id].stock = last.stock[a.product_id] - a.quantity

\* C6: in every reachable state every product's stock is an integer >= 0.
C6_StockNonNegative == \A p \in Products : products[p].stock \in Nat

\* a checkout took the last units of a product
C6_Witness ==
    /\ last.op = "checkout" /\ last.outcome = "ok"
    /\ \E p \in Products : last.stock[p] > 0 /\ products[p].stock = 0

\* C7: add-to-cart twice with the same (user, product, size, color) and
\* quantity 1, from no entry for the key, leaves exactly one entry for the key,
\* of quantity 2; a re-add of an existing key adds the requested quantity to the
\* existing entry and creates no entry, also when size or color is absent.
C7_ReAddIncrements ==
    \A k \in CartKeys, q \in QuantityInputs :
        LET once == AddToCartEffect(cart, k[1], k[2], q, k[3], k[4])
            twice == AddToCartEffect(once, k[1], k[2], q, k[3], k[4])
            i == FirstMatch(cart, k[1], k[2], k[3], k[4])
        IN IF i = 0
           THEN /\ Len(once) = Len(cart) + 1
                /\ Len(twice) = Len(once)
                /\ \A n \in 1..Len(cart) : twice[n] = cart[n]
                /\ LET e == twice[Len(twice)]
                   IN /\ <<e.user_id, e.product_id, e.size, e.color>> = k
                      /\ e.quantity = q + q
                      /\ (q = 1 => e.quantity = 2)
           ELSE /\ Len(once) = Len(cart)
                /\ once[i].quantity = cart[i].quantity + q
                /\ \A n \in 1..Len(cart) : n # i => once[n] = cart[n]

\* a second add of quantity 1 for a key without size and color updated the one
\* entry of that key to quantity 2
C7_Witness ==
    /\ last.op = "add_to_cart" /\ last.outcome = "updated" /\ last.quantity = 1
    /\ \E i \in 1..Len(cart) :
          /\ cart[i].size = None /\ cart[i].color = None
          /\ cart[i].quantity = 2
          /\ MatchingIdx(cart, cart[i].user_id, cart[i].product_id, None, None) = {i}

\* C8: at most one cart entry per (user, product, size, color) in every
\* reachable state, also when two add-to-cart requests for one key both make
\* their lookup before either commits.
C8_CartKeyUnique ==
    \A i, j \in 1..Len(cart) :
        (/\ cart[i].user_id = cart[j].user_id
         /\ cart[i].product_id = cart[j].product_id
         /\ cart[i].size = cart[j].size
         /\ cart[i].color = cart[j].color) => i = j

\* C9: every cart entry has quantity >= 1 in every reachable state.
C9_QuantityAtLeastOne == \A i \in 1..Len(cart) : cart[i].quantity >= 1

\* C10: get_final_price is discount_price whenever discount_price is not null,
\* a discount_price of 0 included, and price otherwise.
C10_FinalPriceIsDiscountWhenSet ==
    \A p \in Products :
        get_final_price(products[p]) =
            IF products[p].discount_price # None THEN products[p].discount_price[1]
            ELSE products[p].price

\* C11: for every product the final price is the discount price if a discount
\* price is present and lower than the base price, and the base price
\* otherwise: a discount price equal to or above the base price is not used.
\* Stated for the products whose discount price is absent or not zero (the
\* zero discount is C10's case).
C11_DiscountUsedOnlyWhenLower ==
    \A p \in Products :
        products[p].discount_price # Some(0) =>
        get_final_price(products[p]) =
            IF /\ products[p].discount_price # None
               /\ products[p].discount_price[1] < products[p].price
            THEN products[p].discount_price[1]
            ELSE products[p].price

\* C12: Offer.is_valid() is true exactly when is_active is true and (end_date
\* is null or now <= end_date): false with an end_date in the past, true at
\* every time without end_date, true with end_date equal to now, false for
\* every end_date when is_active is false; the home page shows exactly the
\* offers for which this holds at the time of the request.
C12_IsValidExactly ==
    /\ \A i \in 1..Len(offers) :
          LET o == offers[i]
          IN /\ is_valid(o, now) <=>
                   (o.is_active /\ (o.end_date = None \/ now <= o.end_date[1]))
             /\ (o.is_active /\ o.end_date # None /\ o.end_date[1] < now)
                   => ~is_valid(o, now)
             /\ (o.is_active /\ o.end_date = None)
                   => \A t \in 0..MaxTime : is_valid(o, t)
             /\ (o.is_active /\ o.end_date = Some(now)) => is_valid(o, now)
             /\ ~o.is_active => \A t \in 0..MaxTime : ~is_valid(o, t)
    /\ last.op = "index" =>
          last.shown = {i \in 1..Len(offers) :
                           /\ offers[i].is_active
                           /\ (offers[i].end_date = None
                                  \/ last.at <= offers[i].end_date[1])}

\* the home page was built at the very end_date of an active offer, which is on
\* it, while an active offer that ended before is not
C12_Witness ==
    /\ last.op = "index"
    /\ \E i, j \in 1..Len(offers) :
          /\ offers[i].is_active /\ offers[i].end_date = Some(last.at)
          /\ i \in last.shown
          /\ offers[j].is_active /\ offers[j].end_date # None
          /\ offers[j].end_date[1] < last.at /\ j \notin last.shown

\* the tables other than cart_items are left as they were
OtherTablesUnchanged ==
    products' = products /\ orders' = orders /\ users' = users /\ offers' = offers

\* C13: update-cart on an entry owned by the requester sets the entry's
\* quantity to the requested value when that value is > 0 and deletes the
\* entry when the value is <= 0; no other cart entry is changed.
C13_UpdateSetsOrDeletes ==
    [][(last'.op = "update_cart" /\ IdxOfId(cart, last'.item) # 0
            /\ cart[IdxOfId(cart, last'.item)].user_id = last'.user)
          => LET i == IdxOfId(cart, last'.item)
                 q == last'.quantity
             IN /\ OtherTablesUnchanged
                /\ IF q > 0
                   THEN /\ Len(cart') = Len(cart)
                        /\ cart'[i] = [cart[i] EXCEPT !.quantity = q]
                        /\ \A n \in 1..Len(cart) : n # i => cart'[n] = cart[n]
                   ELSE /\ Len(cart') = Len(cart) - 1
                        /\ \A n \in 1..Len(cart') :
                              cart'[n] = IF n < i THEN cart[n] ELSE cart[n + 1]]_vars

\* an owner set the quantity of one entry to 2 while the cart holds an entry
\* of another user
C13_Witness ==
    /\ last.op = "update_cart" /\ last.outcome = "ok" /\ last.quantity = 2
    /\ IdxOfId(cart, last.item) # 0
    /\ cart[IdxOfId(cart, last.item)].quantity = 2
    /\ cart[IdxOfId(cart, last.item)].user_id = last.user
    /\ \E n \in 1..Len(cart) : cart[n].user_id # last.user

\* C14: an update-cart or remove-from-cart request that targets a cart entry
\* owned by a different user is refused and changes nothing: the entry keeps
\* its quantity and still exists, and no other record is modified.
C14_ForeignEntryRefused ==
    [][(last'.op \in {"update_cart", "remove_from_cart"}
            /\ IdxOfId(cart, last'.item) # 0
            /\ cart[IdxOfId(cart, last'.item)].user_id # last'.user)
          => /\ last'.outcome = "unauthorized"
             /\ cart' = cart
             /\ OtherTablesUnchanged]_vars

\* a user asked for quantity 0 on an entry of another user, and the entry is
\* still in the cart
C14_Witness ==
    /\ last.op = "update_cart" /\ last.outcome = "unauthorized" /\ last.quantity = 0
    /\ IdxOfId(cart, last.item) # 0
    /\ cart[IdxOfId(cart, last.item)].user_id # last.user
    /\ cart[IdxOfId(cart, last.item)].quantity >= 1

\* C15: if persistence fails at the commit step of checkout, nothing of the
\* workflow is durably applied: no new Order or OrderItem exists, no stock has
\* changed, and the user's cart entries are all still there with their
\* quantities, so that the checkout can be retried.
C15_FailedCommitAppliesNothing ==
    [][(last'.op = "checkout" /\ last'.outcome = "500")
          => /\ orders' = orders
             /\ products' = products
             /\ cart' = cart
             /\ CartOf(cart', last'.user) # <<>>
             /\ users' = users]_vars

\* the commit of a checkout with a valid form failed while an earlier order
\* exists, and the cart of the user still holds what was to be ordered
C15_Witness ==
    /\ last.op = "checkout" /\ last.outcome = "500"
    /\ CheckoutFormValid(last.form)
    /\ CartOf(cart, last.user) # <<>>
    /\ orders # <<>>

\* C16: the price stored in an OrderItem and the total stored in its Order never
\* change after the order is created: admin edits of price or discount_price,
\* cart operations, other checkouts and order status updates leave them as
\* they are.
C16_OrderPricesFrozen ==
    [][\A i \in 1..Len(orders) :
          /\ i <= Len(orders')
          /\ orders'[i].total_amount = orders[i].total_amount
          /\ Len(orders'[i].items) = Len(orders[i].items)
          /\ \A j \in 1..Len(orders[i].items) :
                orders'[i].items[j].price = orders[i].items[j].price]_vars

\* two orders of one product at two prices, the older one with its status
\* updated, and the catalogue price edited once more since
C16_Witness ==
    /\ last.op = "admin_edit_product" /\ last.outcome = "ok"
    /\ Len(orders) = 2
    /\ orders[1].status # "pending"
    /\ orders[1].items[1].product_id = orders[2].items[1].product_id
    /\ orders[1].items[1].price # orders[2].items[1].price
    /\ get_final_price(products[orders[2].items[1].product_id]) # orders[2].items[1].price
    /\ orders[1].total_amount = ItemsSum(orders[1])

\* C17: the unit price used for the order total and for each OrderItem is the
\* product's final price at the moment of checkout: when an admin changes the
\* price or discount_price of a product after it was put in a cart and before
\* the checkout, the order uses the changed price.
C17_PriceAtCheckout ==
    [][(last'.op = "checkout" /\ last'.outcome = "ok")
          => LET had == CartOf(cart, last'.user)
                 o == orders'[Len(orders')]
             IN /\ Len(o.items) = Len(had)
                /\ \A j \in 1..Len(had) :
                      o.items[j].price = get_final_price(products[had[j].product_id])
                /\ o.total_amount =
                      SumSeq([j \in 1..Len(had) |->
                                 get_final_price(products[had[j].product_id])
                                     * had[j].quantity])]_vars

\* a checkout came right after an admin edit that changed the final price of a
\* product of the cart, and the order has the product at the price after the edit
C17_Witness ==
    /\ last.op = "checkout" /\ last.outcome = "ok"
    /\ last.product # 0
    /\ \E j \in 1..Len(NewestOrder.items) :
          /\ NewestOrder.items[j].product_id = last.product
          /\ NewestOrder.items[j].price # last.price
          /\ NewestOrder.items[j].price = get_final_price(products[last.product])

\* Order.status: pending, processing, shipped, delivered, cancelled
StatusChain == <<"pending", "processing", "shipped", "delivered">>
StatusValues == {StatusChain[n] : n \in 1..Len(StatusChain)} \cup {"cancelled"}
\* the place of a status in the chain, 0 for a status that is not in it
StatusRank(st) ==
    IF \E n \in 1..Len(StatusChain) : StatusChain[n] = st
    THEN CHOOSE n \in 1..Len(StatusChain) : StatusChain[n] = st
    ELSE 0

\* a status stays, moves forward along the chain, or becomes cancelled
StatusMoveAllowed(old, new) ==
    \/ new = old
    \/ new = "cancelled"
    \/ /\ StatusRank(old) > 0
       /\ StatusRank(new) > StatusRank(old)

\* C18: an order's status only follows pending -> processing -> shipped ->
\* delivered, or moves to cancelled: the status is one of these five values in
\* every state, and no admin status update moves an order backwards along the
\* chain or to any other value.
C18_StatusLifecycle ==
    [][\A i \in 1..Len(orders') :
          /\ orders'[i].status \in StatusValues
          /\ i <= Len(orders) => StatusMoveAllowed(orders[i].status, orders'[i].status)]_vars

\* C19: every Order is created by checkout with status "pending" and payment
\* status "pending", and its shipping fields are the values supplied on that
\* checkout form, also when they differ from the user's profile values.
C19_OrderCreatedPendingWithFormAddress ==
    [][Len(orders') # Len(orders)
          => LET o == orders'[Len(orders')]
                 f == last'.form
             IN /\ last'.op = "checkout" /\ last'.outcome = "ok"
                /\ Len(orders') = Len(orders) + 1
                /\ o.user_id = last'.user
                /\ o.status = "pending"
                /\ o.payment_status = "pending"
                /\ o.shipping_name = f.shipping_name
                /\ o.shipping_phone = f.shipping_phone
                /\ o.shipping_address = f.shipping_address
                /\ o.shipping_city = f.shipping_city
                /\ o.shipping_state = f.shipping_state
                /\ o.shipping_pincode = f.shipping_pincode]_vars

\* an order was placed with a form of which no shipping field is what the
\* profile of the user holds
C19_Witness ==
    /\ last.op = "checkout" /\ last.outcome = "ok"
    /\ LET o == NewestOrder
           me == users[last.user]
       IN /\ o.user_id = last.user
          /\ o.status = "pending" /\ o.payment_status = "pending"
          /\ o.shipping_name = last.form.shipping_name
          /\ o.shipping_name # me.username
          /\ Some(o.shipping_phone) # me.phone
          /\ Some(o.shipping_address) # me.address
          /\ Some(o.shipping_city) # me.city
          /\ Some(o.shipping_state) # me.state
          /\ Some(o.shipping_pincode) # me.pincode
          /\ me.address # None

\* C20: the shipping fields of an existing order are unchanged by any later
\* profile update of the order's user: editing username, phone, address, city,
\* state or pincode alters no past order.
C20_ProfileUpdateKeepsOrders ==
    [][last'.op = "profile" => orders' = orders]_vars

\* a user who ordered to the address of the profile has updated every field of
\* the profile, and the order still has the address it was placed with
C20_Witness ==
    /\ last.op = "profile" /\ last.outcome = "ok"
    /\ \E i \in 1..Len(orders) :
          LET o == orders[i]
              me == users[last.user]
          IN /\ o.user_id = last.user
             /\ o.shipping_name # GiftForm.shipping_name
             /\ o.shipping_name # me.username
             /\ Some(o.shipping_phone) # me.phone
             /\ Some(o.shipping_address) # me.address
             /\ Some(o.shipping_city) # me.city
             /\ Some(o.shipping_state) # me.state
             /\ Some(o.shipping_pincode) # me.pincode

\* C26: no checkout step ever increases the stock of a product, whatever cart
\* add_to_cart and update_cart have built.
C26_CheckoutNeverRaisesStock ==
    [][last'.op = "checkout" =>
          \A p \in Products : products'[p].stock <= products[p].stock]_vars

\* int(text) of a text of decimal digits
DigitVal(c) == CHOOSE d \in 0..9 : DigitChars[d + 1] = c

RECURSIVE ParseInt(_)
ParseInt(str) ==
    IF Len(str) = 0 THEN 0
    ELSE ParseInt(SubSeq(str, 1, Len(str) - 1)) * 10
            + DigitVal(SubSeq(str, Len(str), Len(str)))

IsDigits(str) ==
    \A i \in 1..Len(str) : \E d \in 1..10 : SubSeq(str, i, i) = DigitChars[d]

\* C22: the order number is "AV", then the 14 digits YYYYMMDDHHMMSS of the
\* second of the request, then the decimal user id; it is a function of that
\* second and the user id only, so the same user in the same second generates
\* the same number. Stated by reading the number back: its fields are fixed by
\* the second and the user id, and nothing else is in it.
C22_OrderNumberFormat ==
    [][last'.op = "order_number" =>
          LET n == last'.number
              t == last'.at
          IN /\ Len(n) >= 17
             /\ SubSeq(n, 1, 2) = "AV"
             /\ IsDigits(SubSeq(n, 3, Len(n)))
             /\ ParseInt(SubSeq(n, 3, 6)) = 2024
             /\ ParseInt(SubSeq(n, 7, 8)) = 1
             /\ ParseInt(SubSeq(n, 9, 10)) = 1 + (t \div 86400)
             /\ ParseInt(SubSeq(n, 11, 12)) = (t % 86400) \div 3600
             /\ ParseInt(SubSeq(n, 13, 14)) = (t % 3600) \div 60
             /\ ParseInt(SubSeq(n, 15, 16)) = t % 60
             /\ ParseInt(SubSeq(n, 17, Len(n))) = last'.user
             /\ SubSeq(n, 17, 17) # "0"]_vars

\* user 12 at 01:01:01 of the first day
C22_Witness ==
    /\ last.op = "order_number"
    /\ last.user = 12 /\ last.at = 3661
    /\ last.number = "AV2024010101010112"

\* C27: the persisted orders have pairwise distinct order numbers; a checkout
\* whose generated number equals the number of an existing order is rejected
\* and creates no order; and the number generated for one user is the number of
\* no other user at any second, the timestamp part having a fixed width.
C27_OrderNumbersDistinct ==
    [][last' # last /\ last'.op = "checkout" /\ last'.outcome \in {"ok", "500"} =>
          /\ \A i, j \in 1..Len(orders') :
                orders'[i].order_number = orders'[j].order_number => i = j
          /\ (\E i \in 1..Len(orders) : orders[i].order_number = last'.number)
                => /\ last'.outcome = "500"
                   /\ orders' = orders /\ cart' = cart /\ products' = products
          /\ \A t \in ClockInputs, v \in UserIds \ {last'.user} :
                order_number(t, v) # last'.number]_vars

\* both users have an order, and the checkout that user 1 made again within
\* the second of the first one was rejected: the cart is still there
C27_Witness ==
    /\ last.op = "checkout" /\ last.outcome = "500" /\ last.user = 1
    /\ Len(orders) = 2
    /\ orders[1].user_id # orders[2].user_id
    /\ \E i \in 1..Len(orders) :
          orders[i].user_id = 1 /\ orders[i].order_number = last.number
    /\ CartOf(cart, 1) # <<>>

\* C25: when the shop is asked with min_price or max_price, every product
\* listed has a discount price that is not null and lies within the bounds
\* given; an active product without discount price is not listed, also when
\* its base price lies within the bounds.
C25_PriceFilterOnDiscountPrice ==
    (last.op = "shop" /\ (last.min_price # None \/ last.max_price # None)) =>
        /\ \A p \in last.shown :
              /\ products[p].is_active
              /\ products[p].discount_price # None
              /\ (last.min_price # None
                    => products[p].discount_price[1] >= last.min_price[1])
              /\ (last.max_price # None
                    => products[p].discount_price[1] <= last.max_price[1])
        /\ \A p \in Products :
              products[p].discount_price = None => p \notin last.shown

\* asked for prices from 1 to 3, the shop lists the product with discount
\* price 2 and leaves out the active product of price 1 without discount price
C25_Witness ==
    /\ last.op = "shop"
    /\ last.min_price = Some(1) /\ last.max_price = Some(3)
    /\ \E p \in last.shown : products[p].discount_price = Some(2)
    /\ \E p \in Products \ last.shown :
          /\ products[p].is_active
          /\ products[p].discount_price = None
          /\ products[p].price = 1

\* a checkout form that cannot pass validation: a required field is empty
FormIncomplete(f) ==
    \/ f.shipping_name = "" \/ f.shipping_phone = "" \/ f.shipping_address = ""
    \/ f.shipping_city = "" \/ f.shipping_state = "" \/ f.shipping_pincode = ""

\* C29: a checkout request for a non-empty cart that is a GET, or whose form
\* fails validation, changes nothing: no order, no order item, no stock
\* change, no cart change.
C29_GetOrInvalidCheckoutNoMutation ==
    [][(/\ last' # last
        /\ CartOf(cart, last'.user) # <<>>
        /\ \/ last'.op = "checkout_page"
           \/ last'.op = "checkout" /\ FormIncomplete(last'.form))
          => /\ orders' = orders /\ products' = products /\ cart' = cart
             /\ users' = users /\ wishlist' = wishlist]_vars

\* a user with a cart has submitted the form with the address left empty
C29_Witness ==
    /\ last.op = "checkout" /\ last.outcome = "invalid"
    /\ last.form.shipping_address = "" /\ last.form.shipping_name # ""
    /\ CartOf(cart, last.user) # <<>>

\* C24: the stock of a product is changed only by an admin product edit and by
\* the decrement of a checkout that commits: add_to_cart, update_cart,
\* remove_from_cart, the wishlist requests, order status updates and a
\* checkout that is refused or fails leave every stock as it was.
C24_StockChangedOnlyByEditAndCheckout ==
    [][/\ (\E p \in Products : products'[p].stock # products[p].stock)
            => \/ last'.op = "admin_edit_product"
               \/ last'.op = "checkout" /\ Len(orders') = Len(orders) + 1
       /\ (/\ last' # last
           /\ \/ last'.op \in {"add_to_cart", "update_cart", "remove_from_cart",
                               "add_to_wishlist", "remove_from_wishlist",
                               "admin_update_order"}
              \/ last'.op = "checkout" /\ orders' = orders)
            => StockOf(products') = StockOf(products)]_vars

\* with a product on the wishlist and an order that the admin has moved on, a
\* checkout of two units that the stock covers has failed at commit, and the
\* stock is what the checkout found
C24_Witness ==
    /\ last.op = "checkout" /\ last.outcome = "500"
    /\ wishlist # <<>>
    /\ StockOf(products) = last.stock
    /\ \E i \in 1..Len(cart) :
          /\ cart[i].user_id = last.user
          /\ cart[i].quantity = 2
          /\ products[cart[i].product_id].stock >= 2

AdminOps ==
    {"admin_add_product", "admin_edit_product", "admin_delete_product",
     "admin_update_order", "admin_add_offer", "admin_delete_offer",
     "admin_respond_comment"}

\* C23: a request to an admin handler by a requester who is not logged in or
\* is not the admin is redirected without running the handler: no product,
\* offer, order or comment is created, changed or deleted by it.
C23_AdminHandlersRefuseNonAdmins ==
    [][(last' # last /\ last'.op \in AdminOps /\ last'.user # Admin)
          => /\ last'.outcome = "redirect"
             /\ products' = products /\ offers' = offers
             /\ orders' = orders /\ comments' = comments]_vars

\* a customer has asked to delete a product that nothing refers to, while an
\* order, a comment and an offer exist: the request was redirected and the
\* product is still there
C23_Witness ==
    /\ last.op = "admin_delete_product" /\ last.outcome = "redirect"
    /\ last.user = 2
    /\ last.product \in DOMAIN products /\ ~ProductReferenced(last.product)
    /\ orders # <<>> /\ comments # <<>> /\ offers # <<>>

\* C28: when one user submits two checkouts that both read the cart before
\* either commits, each cart entry is turned into the OrderItems of at most one
\* order: a checkout that commits orders only entries that are still in the cart.
C28_CartOrderedOnce ==
    [][(last' # last /\ last'.op = "checkout" /\ last'.outcome = "ok")
          => \A id \in last'.entries :
                \E i \in 1..Len(cart) : cart[i].id = id /\ cart[i].user_id = last'.user]_vars

\* C30: the cart requests and the checkout of a user never create, change or
\* delete a cart entry of another user.
C30_OtherCartsUntouched ==
    [][(last' # last /\ last'.op \in {"add_to_cart", "update_cart", "remove_from_cart",
                                     "checkout"})
          => \A b \in Users \ {last'.user} : CartOf(cart', b) = CartOf(cart, b)]_vars

\* C21: two checkouts of different users for one product can overlap so that
\* both read the stock before either commits; both then pass the check
\* stock >= quantity and both write their decrement, each from the stock it
\* read, and the stock left differs from what the two checkouts would leave one
\* after the other. Stated for every committing checkout: the stock it leaves
\* for a product it reduces is the stock it read minus what it took, whatever
\* was committed in between.
C21_DecrementFromStockRead ==
    [][(last' # last /\ last'.op = "checkout" /\ last'.outcome = "ok")
          => LET its == orders'[Len(orders')].items
                 tr == StockTrace(last'.stock, its)[Len(its)]
             IN \A p \in Products :
                   IF tr[p] # last'.stock[p]
                   THEN products'[p].stock = tr[p]
                   ELSE products'[p].stock = products[p].stock]_vars

\* both users have ordered one unit of product 1, the checkout that committed
\* second had read the full stock, and one unit only is gone
C21_Witness ==
    /\ last.op = "checkout" /\ last.outcome = "ok"
    /\ Len(orders) = 2
    /\ orders[1].user_id # orders[2].user_id
    /\ \A i \in 1..2 :
          /\ Len(orders[i].items) = 1
          /\ orders[i].items[1].product_id = 1
          /\ orders[i].items[1].quantity = 1
    /\ last.stock[1] = MaxStock
    /\ products[1].stock = MaxStock - 1

====
